---- MODULE Spec2Model ----
(***************************************************************************)
(* Model of the smart bird feeder: the per-frame callback of               *)
(* bird_classify.py (classification, optional printing, deterrence loop,   *)
(* playsound, save_data), the training-mode detector do_training, and the  *)
(* two read-only pages of the viewer app.py (index, review_deter_triggers) *)
(* over the shared storage directory.                                      *)
(*                                                                         *)
(* The feeder and the viewer are separate processes, so save_data is       *)
(* modelled with one step per file-system operation (image.save, open,     *)
(* json.dump); everything the callback does before save_data touches no    *)
(* shared state and is one step.                                           *)
(***************************************************************************)
EXTENDS Integers, Sequences, FiniteSets, TLC

\* ---------------------------------------------------------------- bounds
MaxFrames == 2       \* frames delivered by the pipeline per run of the model
MaxTime == 2         \* largest reading of the millisecond clock
MaxRestarts == 1     \* how often the feeder process is restarted
MaxRanked == 2       \* classes in the interpreter's output tensor
MaxTrainLen == 2     \* length of the result lists given to do_training
MaxTopK == 3         \* largest top_k given to do_training

\* ------------------------------------------------------ program constants
DETER_LABELS ==
    { "fox squirrel, eastern fox squirrel, Sciurus niger",
      "heron", "otter", "cat", "mink" }

top_k == 1           \* get_classes(interpreter, top_k=1)
TagWidth == 10       \* '%010d'

\* Label file fixture: class id -> label string (read_label_file).
ClassIds == 0 .. 3

labels ==
    [i \in ClassIds |->
        CASE i = 0 -> "cat"
          [] i = 1 -> "Cat"
          [] i = 2 -> "sparrow"
          [] i = 3 -> "otter"]

\* Scores in hundredths.
Scores == {10, 92}

NoLabel == "none"

\* ---------------------------------------------------------------- helpers
Range(s) == {s[i] : i \in 1 .. Len(s)}

Min(a, b) == IF a < b THEN a ELSE b

RECURSIVE Digits(_)
Digits(n) == IF n < 10 THEN <<n>> ELSE Digits(n \div 10) \o <<n % 10>>

RECURSIVE ZeroPad(_, _)
ZeroPad(s, w) == IF Len(s) >= w THEN s ELSE ZeroPad(<<0>> \o s, w)

\* '%010d' % int(time.monotonic()*1000): at least ten digits, zero padded.
FormatTag(ms) == ZeroPad(Digits(ms), TagWidth)

\* '%s/img-%s.%s' % (path, tag, ext): a file of the storage directory.
FileName(t, ext) == [tag |-> t, ext |-> ext]

\* ------------------------------------------------------------------ state
VARIABLES
    args_print,   \* args.print of the running feeder process
    now,          \* int(time.monotonic()*1000) of the running process
    pc,           \* position of the frame callback: "idle", "save_image",
                  \* "open_results", "dump_results"
    frames,       \* number of frames delivered so far
    image,        \* the current frame's image (0: no frame yet)
    results,      \* get_classes(interpreter, top_k=1) of the current frame
    sound_ok,     \* whether playsound can play on the current frame
    decision,     \* "Deter" iff the callback entered the if-branch of the loop
    matched,      \* the label that matched, or NoLabel
    raised,       \* exception that ended the current callback, or "none"
    calls,        \* sink calls made for the current frame, in order
    saved,        \* save_data has returned for the current frame
    store_before, \* the storage directory when the current callback started
    tag,          \* save_data's local tag
    store,        \* the storage directory (args.storage of the feeder,
                  \* STORAGE_PATH of the viewer): file name -> content
    tags_issued,  \* every tag computed by save_data, in order
    restarts,     \* restarts of the feeder process so far
    response,     \* the viewer's response to its last request since the
                  \* storage directory last changed: page, status, items
    tr_results,   \* do_training: argument results
    tr_last,      \* do_training: argument last_results
    tr_top_k,     \* do_training: argument top_k
    tr_called,    \* do_training has been called
    tr_ret        \* do_training's return value

feeder_vars ==
    <<args_print, now, pc, frames, image, results, sound_ok, decision, matched,
      raised, calls, saved, store_before, tag, store, tags_issued, restarts>>

viewer_vars == <<response>>

training_vars == <<tr_results, tr_last, tr_top_k, tr_called, tr_ret>>

vars == <<feeder_vars, viewer_vars, training_vars>>

\* ------------------------------------------------------------- classifier
\* Class = namedtuple('Class', ['id', 'score']): a tuple.
Class(id, score) == <<id, score>>

AllClasses == {Class(i, s) : i \in ClassIds, s \in Scores}

\* The interpreter's output for one frame, ranked by descending score:
\* distinct class ids, at most MaxRanked of them.
InterpreterOutputs ==
    {r \in UNION {[1 .. n -> AllClasses] : n \in 0 .. MaxRanked} :
        /\ \A i, j \in 1 .. Len(r) : i < j => r[i][1] # r[j][1]
        /\ \A i, j \in 1 .. Len(r) : i < j => r[i][2] >= r[j][2]}

\* get_classes(interpreter, top_k): the top_k classes, best first.
get_classes(ranked, k) == SubSeq(ranked, 1, Min(k, Len(ranked)))

\* ---------------------------------------------------------- user_callback
\* Fixture lower-casing of a label.
Lower(label) == IF label = "Cat" THEN "cat" ELSE label

\* Variant: membership after case folding.
IsDeterLabelIgnoreCase(label) == Lower(label) \in DETER_LABELS

\* labels[result.id] in DETER_LABELS
IsDeterLabel(label) == label \in DETER_LABELS

\* Index of the first result of the loop whose label is a deterrent label,
\* 0 when the loop ends without a match.
RECURSIVE FirstMatch(_, _)
FirstMatch(res, i) ==
    IF i > Len(res) THEN 0
    ELSE IF IsDeterLabel(labels[res[i][1]]) THEN i
    ELSE FirstMatch(res, i + 1)

AudioCall == [sink |-> "audio", image |-> 0, results |-> <<>>]

PersistCall(img, res) == [sink |-> "persist", image |-> img, results |-> res]

\* Variant: the frame is saved before the sound is played.
user_callback_save_first(print_flag, img, res, audio_ok) ==
    IF print_flag
    THEN [decision |-> "NoAction", matched |-> NoLabel, raised |-> "NameError",
          calls |-> <<>>, save |-> FALSE]
    ELSE LET i == FirstMatch(res, 1) IN
         IF i = 0
         THEN [decision |-> "NoAction", matched |-> NoLabel, raised |-> "none",
               calls |-> <<>>, save |-> FALSE]
         ELSE [decision |-> "Deter", matched |-> labels[res[i][1]],
               raised |-> IF audio_ok THEN "none" ELSE "playsound",
               calls |-> <<PersistCall(img, res), AudioCall>>, save |-> TRUE]

\* The callback from its entry up to the call of save_data: what it decides,
\* which sinks it calls, how it ends.  With args.print set, line 135 reads
\* the name last_time, which is bound nowhere: NameError before the loop.
user_callback(print_flag, img, res, audio_ok) ==
    IF print_flag
    THEN [decision |-> "NoAction", matched |-> NoLabel, raised |-> "NameError",
          calls |-> <<>>, save |-> FALSE]
    ELSE LET i == FirstMatch(res, 1) IN
         IF i = 0
         THEN [decision |-> "NoAction", matched |-> NoLabel, raised |-> "none",
               calls |-> <<>>, save |-> FALSE]
         ELSE IF ~audio_ok
         THEN [decision |-> "Deter", matched |-> labels[res[i][1]],
               raised |-> "playsound", calls |-> <<AudioCall>>, save |-> FALSE]
         ELSE [decision |-> "Deter", matched |-> labels[res[i][1]],
               raised |-> "none",
               calls |-> <<AudioCall, PersistCall(img, res)>>, save |-> TRUE]

\* ------------------------------------------------------------------- json
\* A JSON text is a sequence of tokens; a parsed JSON array is a sequence of
\* values, each a string or an array of numbers.
Tok(t, v) == [t |-> t, v |-> v]

JsonStr(s) == [kind |-> "str", str |-> s, items |-> <<>>]

JsonArr(items) == [kind |-> "arr", str |-> "", items |-> items]

RECURSIVE JoinComma(_)
JoinComma(parts) ==
    IF Len(parts) = 0 THEN <<>>
    ELSE IF Len(parts) = 1 THEN parts[1]
    ELSE parts[1] \o <<Tok("comma", 0)>> \o JoinComma(Tail(parts))

\* A tuple (the namedtuple Class included) is written as an array of its
\* fields.
EncodeTuple(c) ==
    <<Tok("lb", 0)>> \o JoinComma([k \in 1 .. Len(c) |-> <<Tok("num", c[k])>>])
        \o <<Tok("rb", 0)>>

\* json.dump(results, f): the text written for a list of Class tuples.
json_dump(res) ==
    <<Tok("lb", 0)>> \o JoinComma([k \in 1 .. Len(res) |-> EncodeTuple(res[k])])
        \o <<Tok("rb", 0)>>

Fail == [ok |-> FALSE, val |-> <<>>, next |-> 0]

\* Numbers of an inner array from position pos, up to its closing bracket.
RECURSIVE ParseNums(_, _, _, _)
ParseNums(toks, pos, acc, want) ==
    IF pos > Len(toks) THEN Fail
    ELSE IF want = "value"
    THEN IF toks[pos].t = "num"
         THEN ParseNums(toks, pos + 1, Append(acc, toks[pos].v), "sep")
         ELSE IF toks[pos].t = "rb" /\ Len(acc) = 0
         THEN [ok |-> TRUE, val |-> acc, next |-> pos + 1]
         ELSE Fail
    ELSE IF toks[pos].t = "comma" /\ pos < Len(toks) /\ toks[pos + 1].t = "num"
    THEN ParseNums(toks, pos + 1, acc, "value")
    ELSE IF toks[pos].t = "rb"
    THEN [ok |-> TRUE, val |-> acc, next |-> pos + 1]
    ELSE Fail

\* Elements of the outer array from position pos, up to its closing bracket.
RECURSIVE ParseElems(_, _, _, _)
ParseElems(toks, pos, acc, want) ==
    IF pos > Len(toks) THEN Fail
    ELSE IF want = "value"
    THEN IF toks[pos].t = "lb"
         THEN LET inner == ParseNums(toks, pos + 1, <<>>, "value") IN
              IF inner.ok
              THEN ParseElems(toks, inner.next, Append(acc, JsonArr(inner.val)),
                              "sep")
              ELSE Fail
         ELSE IF toks[pos].t = "rb" /\ Len(acc) = 0
         THEN [ok |-> TRUE, val |-> acc, next |-> pos + 1]
         ELSE Fail
    ELSE IF toks[pos].t = "comma" /\ pos < Len(toks) /\ toks[pos + 1].t = "lb"
    THEN ParseElems(toks, pos + 1, acc, "value")
    ELSE IF toks[pos].t = "rb"
    THEN [ok |-> TRUE, val |-> acc, next |-> pos + 1]
    ELSE Fail

\* json.load(f): the parsed array, or not ok (JSONDecodeError) when the text
\* is empty, truncated or followed by extra data.
json_load(toks) ==
    IF Len(toks) = 0 \/ toks[1].t # "lb" THEN Fail
    ELSE LET r == ParseElems(toks, 2, <<>>, "value") IN
         IF r.ok /\ r.next = Len(toks) + 1 THEN r ELSE Fail

\* Python's `s in results` for a parsed JSON array: some element equals s.
JsonIn(s, val) == \E k \in 1 .. Len(val) : val[k] = JsonStr(s)

\* The (id, score) pairs of a parsed array of arrays.
Pairs(val) == [k \in 1 .. Len(val) |-> val[k].items]

\* --------------------------------------------------------------- training
\* Variant: the comparison with top_k is not strict.
do_training_le(res, last_res, k) ==
    LET new_labels == [i \in 1 .. Len(res) |-> res[i][1]]
        old_labels == [i \in 1 .. Len(last_res) |-> last_res[i][1]]
        shared_labels == Range(new_labels) \cap Range(old_labels)
    IN  Cardinality(shared_labels) <= k

\* do_training(results, last_results, top_k)
do_training(res, last_res, k) ==
    LET new_labels == [i \in 1 .. Len(res) |-> res[i][1]]
        old_labels == [i \in 1 .. Len(last_res) |-> last_res[i][1]]
        shared_labels == Range(new_labels) \cap Range(old_labels)
    IN  Cardinality(shared_labels) < k

TrainingLabels == 0 .. 2

TrainingInputs ==
    UNION {[1 .. n -> {Class(i, s) : i \in TrainingLabels, s \in Scores}] :
               n \in 0 .. MaxTrainLen}

\* ----------------------------------------------------------------- viewer
PngFiles(dir) == {f \in DOMAIN dir : f.ext = "png"}

JsonFiles(dir) == {f \in DOMAIN dir : f.ext = "json"}

\* filename.replace('.png', '.json') and back
WithExt(f, ext) == [f EXCEPT !.ext = ext]

\* index(): every image whose result file exists, with the parsed results;
\* json.load raising on any of them fails the request.
index(dir) ==
    LET listed == {f \in PngFiles(dir) : WithExt(f, "json") \in DOMAIN dir} IN
    IF \E f \in listed : ~json_load(dir[WithExt(f, "json")]).ok
    THEN [page |-> "index", status |-> "JSONDecodeError", items |-> {}]
    ELSE [page |-> "index", status |-> "ok",
          items |-> {[image |-> f,
                       results |-> json_load(dir[WithExt(f, "json")]).val] :
                          f \in listed}]

\* review_deter_triggers(): every result file whose parsed content has
\* 'deter' in it, with the image name derived from the file name.
review_deter_triggers(dir) ==
    IF \E f \in JsonFiles(dir) : ~json_load(dir[f]).ok
    THEN [page |-> "triggers", status |-> "JSONDecodeError", items |-> {}]
    ELSE [page |-> "triggers", status |-> "ok",
          items |-> {[image |-> WithExt(f, "png"),
                         results |-> json_load(dir[f]).val] :
                            f \in {g \in JsonFiles(dir) :
                                      JsonIn("deter", json_load(dir[g]).val)}}]

\* ------------------------------------------------------------------- Init
NoResponse == [page |-> "none", status |-> "none", items |-> {}]

EmptyDir == [f \in {} |-> <<>>]

InitFeeder ==
    /\ now = 0
    /\ pc = "idle"
    /\ frames = 0
    /\ image = 0
    /\ results = <<>>
    /\ sound_ok = TRUE
    /\ decision = "NoAction"
    /\ matched = NoLabel
    /\ raised = "none"
    /\ calls = <<>>
    /\ saved = FALSE
    /\ store_before = EmptyDir
    /\ tag = <<>>
    /\ store = EmptyDir
    /\ tags_issued = <<>>
    /\ restarts = 0
    /\ response = NoResponse

Init ==
    /\ args_print \in BOOLEAN
    /\ InitFeeder
    /\ tr_results = <<>>
    /\ tr_last = <<>>
    /\ tr_top_k = 0
    /\ tr_called = FALSE
    /\ tr_ret = FALSE

\* ---------------------------------------------------------------- actions
\* One frame: lines 128-139 and, on a match with the sound played, the call
\* of save_data.  Inference and the blocking playback take time.
UserCallback ==
    /\ pc = "idle"
    /\ frames < MaxFrames
    /\ now < MaxTime
    /\ \E ranked \in InterpreterOutputs, audio_ok \in BOOLEAN :
          LET img == frames + 1
              res == get_classes(ranked, top_k)
              out == user_callback(args_print, img, res, audio_ok)
          IN  /\ frames' = img
              /\ image' = img
              /\ results' = res
              /\ sound_ok' = audio_ok
              /\ decision' = out.decision
              /\ matched' = out.matched
              /\ raised' = out.raised
              /\ calls' = out.calls
              /\ pc' = IF out.save THEN "save_image" ELSE "idle"
    /\ saved' = FALSE
    /\ store_before' = store
    /\ now' = now + 1
    /\ UNCHANGED <<args_print, tag, store, tags_issued, restarts>>
    /\ UNCHANGED <<viewer_vars, training_vars>>

\* save_data lines 47-49: the tag from the clock, then image.save(name).
SaveImage ==
    /\ pc = "save_image"
    /\ tag' = FormatTag(now)
    /\ store' = (FileName(FormatTag(now), "png") :> image) @@ store
    /\ tags_issued' = Append(tags_issued, FormatTag(now))
    /\ pc' = "open_results"
    /\ UNCHANGED <<args_print, now, frames, image, results, sound_ok, decision,
                   matched, raised, calls, saved, store_before, restarts>>
    /\ response' = NoResponse
    /\ UNCHANGED training_vars

\* save_data line 54: open(results_name, 'w') creates or truncates the file.
OpenResults ==
    /\ pc = "open_results"
    /\ store' = (FileName(tag, "json") :> <<>>) @@ store
    /\ pc' = "dump_results"
    /\ UNCHANGED <<args_print, now, frames, image, results, sound_ok, decision,
                   matched, raised, calls, saved, store_before, tag,
                   tags_issued, restarts>>
    /\ response' = NoResponse
    /\ UNCHANGED training_vars

\* save_data line 55 and the end of the with block: the text is written and
\* save_data returns.
DumpResults ==
    /\ pc = "dump_results"
    /\ store' = (FileName(tag, "json") :> json_dump(results)) @@ store
    /\ saved' = TRUE
    /\ pc' = "idle"
    /\ UNCHANGED <<args_print, now, frames, image, results, sound_ok, decision,
                   matched, raised, calls, store_before, tag, tags_issued,
                   restarts>>
    /\ response' = NoResponse
    /\ UNCHANGED training_vars

\* image.save, open or json.dump raises OSError (disk full, permissions):
\* the exception leaves save_data and the callback.
SaveFails ==
    /\ pc \in {"save_image", "open_results", "dump_results"}
    /\ raised' = "OSError"
    /\ pc' = "idle"
    /\ UNCHANGED <<args_print, now, frames, image, results, sound_ok, decision,
                   matched, calls, saved, store_before, tag, store,
                   tags_issued, restarts>>
    /\ UNCHANGED <<viewer_vars, training_vars>>

\* The feeder process is terminated and started again, with new arguments
\* and, the reference point of time.monotonic() being undefined across
\* processes, any clock reading.  The storage directory stays.
Restart ==
    /\ restarts < MaxRestarts
    /\ restarts' = restarts + 1
    /\ args_print' \in BOOLEAN
    /\ now' \in 0 .. MaxTime
    /\ pc' = "idle"
    /\ image' = 0
    /\ results' = <<>>
    /\ sound_ok' = TRUE
    /\ decision' = "NoAction"
    /\ matched' = NoLabel
    /\ raised' = "none"
    /\ calls' = <<>>
    /\ saved' = FALSE
    /\ store_before' = store
    /\ tag' = <<>>
    /\ UNCHANGED <<frames, store, tags_issued>>
    /\ UNCHANGED <<viewer_vars, training_vars>>

\* Time passes.
Tick ==
    /\ now < MaxTime
    /\ now' = now + 1
    /\ UNCHANGED <<args_print, pc, frames, image, results, sound_ok, decision,
                   matched, raised, calls, saved, store_before, tag, store,
                   tags_issued, restarts>>
    /\ UNCHANGED <<viewer_vars, training_vars>>

\* GET / of the viewer.
Index ==
    /\ response' = index(store)
    /\ UNCHANGED <<feeder_vars, training_vars>>

\* GET /review_deter_triggers of the viewer.
ReviewDeterTriggers ==
    /\ response' = review_deter_triggers(store)
    /\ UNCHANGED <<feeder_vars, training_vars>>

Next ==
    \/ UserCallback
    \/ SaveImage
    \/ OpenResults
    \/ DumpResults
    \/ SaveFails
    \/ Restart
    \/ Tick
    \/ Index
    \/ ReviewDeterTriggers

Spec == Init /\ [][Next]_vars

\* do_training on inputs drawn from TrainingInputs.
InitTraining ==
    /\ args_print = FALSE
    /\ InitFeeder
    /\ tr_results \in TrainingInputs
    /\ tr_last \in TrainingInputs
    /\ tr_top_k \in -1 .. MaxTopK
    /\ tr_called = FALSE
    /\ tr_ret = FALSE

DoTraining ==
    /\ ~tr_called
    /\ tr_ret' = do_training(tr_results, tr_last, tr_top_k)
    /\ tr_called' = TRUE
    /\ UNCHANGED <<feeder_vars, viewer_vars, tr_results, tr_last, tr_top_k>>

NextTraining == DoTraining

SpecTraining == InitTraining /\ [][NextTraining]_vars

\* ----------------------------------------------------------------- claims
\* The top-ranked label of the current frame is a deterrent label.
TopIsDeter == Len(results) > 0 /\ labels[results[1][1]] \in DETER_LABELS

\* C1: for every frame the decision is Deter(label) exactly when the top
\* ranked label is, by exact string equality, one of DETER_LABELS, and
\* NoAction for every other classification result.
C1_DeterIffTopLabelInSet ==
    image # 0 =>
        /\ (decision = "Deter") <=> TopIsDeter
        /\ TopIsDeter => matched = labels[results[1][1]]
        /\ ~TopIsDeter => decision = "NoAction"

\* C2: on a frame decided Deter whose sinks do not fail, the audio sink is
\* called once, then the persistence sink once with the frame's image and the
\* full result list, and nothing else; once save_data has returned, the files
\* under its tag hold that image and that list.
C2_DeterSoundThenSaveOnce ==
    (image # 0 /\ decision = "Deter" /\ raised = "none") =>
        /\ calls = <<AudioCall, PersistCall(image, results)>>
        /\ saved =>
              /\ FileName(tag, "png") \in DOMAIN store
              /\ store[FileName(tag, "png")] = image
              /\ FileName(tag, "json") \in DOMAIN store
              /\ store[FileName(tag, "json")] = json_dump(results)

C2_Witness ==
    /\ image = 2
    /\ decision = "Deter"
    /\ raised = "none"
    /\ saved
    /\ Len(tags_issued) = 2

\* C3: a frame whose result is empty or whose top label is no deterrent
\* label is decided NoAction, calls neither sink and leaves the store as it
\* was when the frame arrived.
C3_NoActionNoSideEffects ==
    (image # 0 /\ ~TopIsDeter) =>
        /\ decision = "NoAction"
        /\ calls = <<>>
        /\ pc = "idle"
        /\ store = store_before

C3_Witness ==
    /\ image # 0
    /\ Len(results) > 0
    /\ labels[results[1][1]] = "Cat"
    /\ decision = "NoAction"
    /\ store # EmptyDir

\* C4: a failure of the audio sink on a frame decided Deter does not prevent
\* the frame's image from being written to the store.
C4_AudioFailureStillPersists ==
    (image # 0 /\ decision = "Deter" /\ raised = "playsound" /\ pc = "idle") =>
        \E f \in PngFiles(store) : store[f] = image

\* C5: in every state of the store an image file has its result record and a
\* result record has its image file: the two are present as a pair.
C5_ImageAndResultPaired ==
    /\ \A f \in PngFiles(store) :
          /\ WithExt(f, "json") \in DOMAIN store
          /\ json_load(store[WithExt(f, "json")]).ok
    /\ \A f \in JsonFiles(store) : WithExt(f, "png") \in DOMAIN store

\* The number a tag is the decimal writing of.
RECURSIVE TagValue(_)
TagValue(t) ==
    IF Len(t) = 0 THEN 0
    ELSE 10 * TagValue(SubSeq(t, 1, Len(t) - 1)) + t[Len(t)]

\* C6: no two save_data calls produce the same tag; the tags of successive
\* saves increase.
C6_TagsUniqueAndIncreasing ==
    \A i, j \in 1 .. Len(tags_issued) :
        i < j => TagValue(tags_issued[i]) < TagValue(tags_issued[j])

\* Labels common to the two arguments of do_training, counted from the
\* label universe.
SharedCount ==
    Cardinality({l \in TrainingLabels :
                    /\ \E i \in 1 .. Len(tr_results) : tr_results[i][1] = l
                    /\ \E j \in 1 .. Len(tr_last) : tr_last[j][1] = l})

C8_StoreRoundTrip ==
    saved =>
        LET r == index(store)
            mine == {v \in r.items : v.image = FileName(tag, "png")}
        IN  /\ r.status = "ok"
            /\ Cardinality(mine) = 1
            /\ \A v \in mine :
                  /\ store[v.image] = image
                  /\ Pairs(v.results) = results

\* The visits of the store whose result holds a deterrent label.
DeterVisits(dir) ==
    {WithExt(f, "png") : f \in
        {g \in JsonFiles(dir) :
            /\ json_load(dir[g]).ok
            /\ \E k \in 1 .. Len(json_load(dir[g]).val) :
                  labels[json_load(dir[g]).val[k].items[1]] \in DETER_LABELS}}

\* C9: the trigger-review operation returns exactly the visits of the store
\* whose result holds a deterrent label.
C9_TriggersAreDeterVisits ==
    (response.page = "triggers" /\ response.status = "ok") =>
        {v.image : v \in response.items} = DeterVisits(store)

\* C10: the print flag changes neither the decision nor the sink calls of a
\* frame: what the callback did equals what it does on the same frame with
\* the flag the other way.
C10_PrintFlagOnlyPrints ==
    image # 0 =>
        LET other == user_callback(~args_print, image, results, sound_ok) IN
        /\ decision = other.decision
        /\ calls = other.calls

====
